---- MODULE Spec2Model ----
(***************************************************************************)
(* Model of scraper.py: main() and scrape_subreddit(), the chronological   *)
(* pagination loop over the submission archive with the optional merge of  *)
(* live values and the optional field whitelist.                           *)
(*                                                                         *)
(* The archive (pushshift) and the live API (praw reddit.info) are the     *)
(* environment.  The archive answers a request with the at most `size`     *)
(* newest posts whose created_utc lies strictly between `after` and        *)
(* `before`.  reddit.info yields, in request order, one live object per    *)
(* fullname the platform can still resolve, and nothing for the others.    *)
(* created_utc values are integral epoch seconds, so int() leaves them     *)
(* unchanged.                                                              *)
(***************************************************************************)
EXTENDS Integers, Sequences, FiniteSets, TLC

\* ---- bounds of the model ------------------------------------------------
MaxPosts == 3      \* posts held by the archive
MaxTime  == 3      \* created_utc values are drawn from 0..MaxTime
MaxCount == 4      \* explicit --count values are drawn from 0..MaxCount
MaxSubs  == 2      \* subreddits given to main
PageSize == 2      \* the 'size' of an archive request (500 in the source)

\* ---- program constants --------------------------------------------------
DefaultCount == 1000     \* argparse default of --count
Day == 86400             \* datetime.timedelta(days=1), in seconds

FIELDS_TO_UPDATE ==
  << "locked", "num_comments", "num_crossposts", "over_18", "pinned",
     "score", "selftext", "spoiler", "stickied", "subreddit_subscribers" >>

\* ---- optional values ----------------------------------------------------
None == << >>
Some(x) == << x >>
Val(o) == o[1]

Range(s) == { s[k] : k \in DOMAIN s }
Min(a, b) == IF a < b THEN a ELSE b
Last(s) == s[Len(s)]

\* ---- data ---------------------------------------------------------------
\* An archive item: the snapshot values differ from the live values.
Post(i, t) == [ id |-> i, created_utc |-> t, score |-> i, title |-> 200 + i ]

\* The live value of a volatile field of post i.
LiveValue(i, f) == 100 + i

\* The live object of post i (a praw Submission).
Submission(i) ==
  [ f \in Range(FIELDS_TO_UPDATE) \cup {"name"} |->
      IF f = "name" THEN << "t3_", i >> ELSE LiveValue(i, f) ]

\* f't3_{post["id"]}'
Fullname(id) == << "t3_", id >>

SubName(k) == << "sub", k >>

VARIABLES
  archive,       \* posts of the archive, newest first
  live,          \* ids the live API still resolves
  caller,        \* "main" (command line) or "import" (direct call)
  args,          \* the parsed arguments / the call's arguments
  pc,            \* control point
  main_fields,   \* main's local `fields`: None while unbound
  sub_i,         \* position of main's for loop in subreddits
  subreddit, update, count, fields,        \* parameters of scrape_subreddit
  end_epoch, start_epoch, current_epoch,   \* the window and the cursor
  output,        \* the list `output`
  posts,         \* the page returned by the last archive request
  zipped_posts,  \* the pairs the for loop has still to consume
  files,         \* output files written, by subreddit
  last_fetch,    \* history: the last archive request of this scrape
  origin         \* history: for each appended item, the pair it came from

vars == << archive, live, caller, args, pc, main_fields, sub_i, subreddit,
           update, count, fields, end_epoch, start_epoch, current_epoch,
           output, posts, zipped_posts, files, last_fetch, origin >>

\* ---- the environment ---------------------------------------------------
InWindow(post, payload) ==
  /\ post.created_utc < payload.before
  /\ post.created_utc > payload.after

\* The archive's answer: sort=desc, sort_type=created_utc, at most `size`.
query_pushshift(payload) ==
  LET matching == SelectSeq(archive, LAMBDA p : InWindow(p, payload))
  IN  SubSeq(matching, 1, Min(payload.size, Len(matching)))

\* reddit.info(ids): the live objects of the fullnames that resolve.
RedditInfo(ids) ==
  LET found == SelectSeq(ids, LAMBDA n : n[2] \in live)
  IN  [ k \in 1..Len(found) |-> Submission(found[k][2]) ]

\* ---- helpers of scrape_subreddit ---------------------------------------
zip(a, b) == [ k \in 1..Min(Len(a), Len(b)) |-> << a[k], b[k] >> ]

\* Mutation of the loop test: the loop is left one item early.
LoopConditionEarly(out, c) == Len(out) + 1 < c

\* Mutation of the loop test: one more page is requested at len(output) = count.
LoopConditionInclusive(out, c) == Len(out) <= c

\* len(output) < count, for an integer count
LoopCondition(out, c) == Len(out) < c

\* keep_whitelisted_fields raises KeyError on a field the post lacks
MissingField(post, whitelist) == \E f \in Range(whitelist) : f \notin DOMAIN post

keep_whitelisted_fields(post, whitelist) ==
  [ f \in Range(whitelist) |-> post[f] ]

\* for field in FIELDS_TO_UPDATE: if field in post: post[field] = getattr(...)
Enrich(post, submission) ==
  [ f \in DOMAIN post |->
      IF f \in Range(FIELDS_TO_UPDATE) THEN submission[f] ELSE post[f] ]

\* The record of an archive request: its payload, the page it returned, the
\* number of pairs the zip produced for it, the length of output before it,
\* and whether every non-empty page so far produced PageSize pairs.
NoFetch ==
  [ requested |-> FALSE, payload |-> None, posts |-> << >>, n |-> 0,
    len_before |-> 0, all_full |-> TRUE ]

Fetch(payload, page, n) ==
  [ requested |-> TRUE, payload |-> payload, posts |-> page, n |-> n,
    len_before |-> Len(output),
    all_full |-> last_fetch.all_full /\ (page # << >> => n = PageSize) ]

\* ---- initial states -----------------------------------------------------
Times == 0..MaxTime

Archives ==
  { [ k \in DOMAIN ts |-> Post(k, ts[k]) ] :
      ts \in { t \in UNION { [1..n -> Times] : n \in 0..MaxPosts } :
                 \A k \in 1..(Len(t) - 1) : t[k] >= t[k + 1] } }

FieldLists ==
  { << >>, << "score", "title" >>, << "id", "flair" >> }

SubLists == { [ k \in 1..n |-> SubName(k) ] : n \in 1..MaxSubs }

Counts == { Some(c) : c \in 0..MaxCount }

MainArgs ==
  [ field_list : {None} \cup { Some(w) : w \in FieldLists },
    count      : Counts \cup { Some(DefaultCount) },
    update     : BOOLEAN,
    start_date : { Some(0) },
    end_date   : { Some(0) },
    subs       : SubLists ]

CallArgs ==
  [ field_list : { Some(w) : w \in FieldLists },
    count      : { None },
    update     : BOOLEAN,
    start_date : { Some(0) },
    end_date   : { Some(0) },
    subs       : { << SubName(1) >> } ]

Init ==
  /\ archive \in Archives
  /\ caller \in { "main", "import" }
  /\ args \in IF caller = "main" THEN MainArgs ELSE CallArgs
  /\ live \in SUBSET { archive[k].id : k \in DOMAIN archive }
  /\ ~args.update => live = { archive[k].id : k \in DOMAIN archive }
  /\ pc = caller
  /\ main_fields = None
  /\ sub_i = 1
  /\ subreddit = SubName(1)
  /\ update = FALSE
  /\ count = Some(0)
  /\ fields = << >>
  /\ end_epoch = 0
  /\ start_epoch = 0
  /\ current_epoch = 0
  /\ output = << >>
  /\ posts = << >>
  /\ zipped_posts = << >>
  /\ files = << >>
  /\ last_fetch = NoFetch
  /\ origin = << >>

\* ---- scrape_subreddit ---------------------------------------------------
\* Lines 79-89: bind the parameters, compute the window, empty the output.
Enter(sub, upd, cnt, flds, start_date, end_date) ==
  /\ subreddit' = sub
  /\ update' = upd
  /\ count' = cnt
  /\ fields' = flds
  /\ end_epoch' = start_date
  /\ start_epoch' = end_date + Day - 1
  /\ current_epoch' = end_date + Day - 1
  /\ output' = << >>
  /\ last_fetch' = NoFetch
  /\ origin' = << >>
  /\ pc' = "loop"

\* Line 91: the while test.  `len(output) < count` is evaluated first and
\* raises TypeError when count is None.
LoopTest ==
  /\ pc = "loop"
  /\ pc' = IF count = None THEN "TypeError"
           ELSE IF LoopCondition(output, Val(count)) THEN "query"
           ELSE "write"
  /\ UNCHANGED << archive, live, caller, args, main_fields, sub_i, subreddit,
                  update, count, fields, end_epoch, start_epoch,
                  current_epoch, output, posts, zipped_posts, files,
                  last_fetch, origin >>

\* Lines 92-109: request a page, leave the loop if it is empty, else zip it
\* with the live objects (or with None).
Query ==
  /\ pc = "query"
  /\ LET payload == [ subreddit |-> subreddit, sort |-> "desc",
                      size |-> PageSize, before |-> current_epoch,
                      after |-> end_epoch, sort_type |-> "created_utc" ]
         page == query_pushshift(payload)
         ids  == [ k \in DOMAIN page |-> Fullname(page[k].id) ]
         zipped == IF update THEN zip(page, RedditInfo(ids))
                   ELSE zip(page, [ k \in DOMAIN page |-> None ])
     IN  /\ posts' = page
         /\ IF Len(page) = 0
            THEN /\ pc' = "write"
                 /\ zipped_posts' = zipped_posts
                 /\ last_fetch' = Fetch(payload, page, 0)
            ELSE /\ zipped_posts' = zipped
                 /\ pc' = IF zipped = << >> THEN "loop" ELSE "for"
                 /\ last_fetch' = Fetch(payload, page, Len(zipped))
  /\ UNCHANGED << archive, live, caller, args, main_fields, sub_i, subreddit,
                  update, count, fields, end_epoch, start_epoch,
                  current_epoch, output, files, origin >>

\* Lines 111-125: one iteration of the for loop.
ForBody ==
  /\ pc = "for"
  /\ LET post == Head(zipped_posts)[1]
         submission == Head(zipped_posts)[2]
     IN  /\ current_epoch' = post.created_utc
         /\ IF Len(fields) > 0 /\ MissingField(post, fields)
            THEN /\ pc' = "KeyError"
                 /\ UNCHANGED << output, zipped_posts, origin >>
            ELSE LET kept == IF Len(fields) > 0
                             THEN keep_whitelisted_fields(post, fields)
                             ELSE post
                     item == IF update THEN Enrich(kept, submission) ELSE kept
                 IN  /\ output' = Append(output, item)
                     /\ origin' = Append(origin,
                           [ post |-> post.id,
                             live |-> IF update THEN submission.name ELSE None ])
                     /\ zipped_posts' = Tail(zipped_posts)
                     /\ pc' = IF Tail(zipped_posts) = << >> THEN "loop" ELSE "for"
  /\ UNCHANGED << archive, live, caller, args, main_fields, sub_i, subreddit,
                  update, count, fields, end_epoch, start_epoch, posts,
                  files, last_fetch >>

\* Lines 127-132: write the output file and return to the caller.
WriteOutput ==
  /\ pc = "write"
  /\ files' = (subreddit :> output) @@ files
  /\ IF caller = "main"
     THEN pc' = "main_for" /\ sub_i' = sub_i + 1
     ELSE pc' = "exit" /\ sub_i' = sub_i
  /\ UNCHANGED << archive, live, caller, args, main_fields, subreddit, update,
                  count, fields, end_epoch, start_epoch, current_epoch,
                  output, posts, zipped_posts, last_fetch, origin >>

\* ---- main ---------------------------------------------------------------
\* Lines 40-63: the arguments are parsed; `fields` is bound only when
\* --field_list was given.  (--sub/--sub_list is given and count is an int,
\* so the two exit(1) checks pass.)
Main ==
  /\ pc = "main"
  /\ main_fields' = IF args.field_list # None
                    THEN Some(Val(args.field_list)) ELSE None
  /\ sub_i' = 1
  /\ pc' = "main_for"
  /\ UNCHANGED << archive, live, caller, args, subreddit, update, count,
                  fields, end_epoch, start_epoch, current_epoch, output,
                  posts, zipped_posts, files, last_fetch, origin >>

\* Lines 65-73: the next subreddit is scraped; reading the unbound local
\* `fields` raises UnboundLocalError.
MainFor ==
  /\ pc = "main_for"
  /\ IF sub_i > Len(args.subs)
     THEN /\ pc' = "exit"
          /\ UNCHANGED << subreddit, update, count, fields, end_epoch,
                          start_epoch, current_epoch, output, last_fetch, origin >>
     ELSE IF main_fields = None
     THEN /\ pc' = "UnboundLocalError"
          /\ UNCHANGED << subreddit, update, count, fields, end_epoch,
                          start_epoch, current_epoch, output, last_fetch, origin >>
     ELSE Enter(args.subs[sub_i], args.update, args.count, Val(main_fields),
                Val(args.start_date), Val(args.end_date))
  /\ UNCHANGED << archive, live, caller, args, main_fields, sub_i, posts,
                  zipped_posts, files >>

\* scrape_subreddit called directly by an importing program.
DirectCall ==
  /\ pc = "import"
  /\ Enter(args.subs[1], args.update, args.count, Val(args.field_list),
           Val(args.start_date), Val(args.end_date))
  /\ UNCHANGED << archive, live, caller, args, main_fields, sub_i, posts,
                  zipped_posts, files >>

Next ==
  \/ Main
  \/ MainFor
  \/ DirectCall
  \/ LoopTest
  \/ Query
  \/ ForBody
  \/ WriteOutput

Spec == Init /\ [][Next]_vars

FairSpec == Init /\ [][Next]_vars /\ WF_vars(Next)

Terminal == { "exit", "TypeError", "KeyError", "UnboundLocalError" }

TypeOK ==
  /\ pc \in { "main", "import", "main_for", "loop", "query", "for", "write" }
             \cup Terminal
  /\ Len(output) = Len(origin)

\* ---- properties ---------------------------------------------------------
LastPageEmpty == last_fetch.requested /\ last_fetch.posts = << >>

LastPageNonEmpty == last_fetch.requested /\ last_fetch.posts # << >>

\* The ids of the archive items of the date range of the running scrape.
InRangeIds ==
  { archive[k].id : k \in { j \in DOMAIN archive :
        /\ archive[j].created_utc > end_epoch
        /\ archive[j].created_utc < start_epoch } }

\* The smallest multiple of the page size that is >= n (n >= 0).
SmallestMultipleGE(n) ==
  IF n <= 0 THEN 0 ELSE ((n + PageSize - 1) \div PageSize) * PageSize

\* C1 as stated: the loop is left only on an archive request that returned
\* an empty page; it is never left while the last fetched page was non-empty.
LoopEndsOnlyOnEmptyPage ==
  (pc = "write" /\ last_fetch.requested) => last_fetch.posts = << >>

\* C1 amended: whenever the loop is left normally, either the last archive
\* request returned an empty page, or the loop test found len(output) >=
\* count (then no further request is made); the loop is never left in the
\* middle of a page.
LoopEndsOnEmptyPageOrCount ==
  pc = "write" =>
    /\ \/ LastPageEmpty
       \/ count # None /\ Len(output) >= Val(count)
    /\ zipped_posts = << >>

\* Witness of C1: the loop was left by the count test after a non-empty page.
CountStoppedLoop ==
  pc = "write" /\ LastPageNonEmpty /\ Len(output) >= Val(count)

NoCountMeansNoLimit ==
  count = None =>
    /\ pc # "TypeError"
    /\ pc = "write" => LastPageEmpty

\* C4 as stated: with the archive answering with the newest items strictly
\* inside the window and a count not smaller than the number of in-range
\* items, the final output holds every in-range item exactly once.
CursorNeitherMissesNorDuplicates ==
  (pc = "write" /\ ~update /\ count # None
     /\ Val(count) >= Cardinality(InRangeIds)) =>
    /\ \A i \in InRangeIds :
         Cardinality({ k \in DOMAIN origin : origin[k].post = i }) = 1
    /\ \A k \in DOMAIN origin : origin[k].post \in InRangeIds

\* C5 as stated: with a whitelist W, every output item has exactly the
\* fields of W; with enrichment on the volatile fields of W hold the item's
\* live value and the others the archive value; with enrichment off all
\* hold the archive value.
WhitelistedFieldsHoldLiveOrArchiveValues ==
  Len(fields) > 0 =>
    \A k \in DOMAIN output :
      /\ DOMAIN output[k] = Range(fields)
      /\ \A f \in Range(fields) :
           output[k][f] =
             IF update /\ f \in Range(FIELDS_TO_UPDATE)
             THEN LiveValue(origin[k].post, f)
             ELSE archive[origin[k].post][f]

\* C6 as stated: after a non-empty page has been processed, the cursor is
\* the created_utc of the last item of that page as the archive returned it.
CursorIsLastItemOfPage ==
  (pc = "loop" /\ LastPageNonEmpty) =>
    current_epoch = Last(last_fetch.posts).created_utc

\* C7 as stated: without --field_list main does not fail for lack of a
\* whitelist, and every listed subreddit is scraped.
WhitelistIsOptional ==
  (caller = "main" /\ args.field_list = None) =>
    /\ pc # "UnboundLocalError"
    /\ pc = "exit" => DOMAIN files = Range(args.subs)

\* C8 as stated: every item of a non-empty page is appended to output, in
\* the order received, before the next page is requested.
EveryPageItemAppended ==
  (pc = "loop" /\ LastPageNonEmpty) =>
    /\ Len(origin) = last_fetch.len_before + Len(last_fetch.posts)
    /\ \A k \in DOMAIN last_fetch.posts :
         origin[last_fetch.len_before + k].post = last_fetch.posts[k].id

\* C9 as stated: the live object merged into an item is the one looked up
\* for that item's fully-qualified id.
LiveObjectBelongsToItem ==
  \A k \in DOMAIN origin :
    origin[k].live # None => origin[k].live = Fullname(origin[k].post)

\* C10 as stated: scrape_subreddit always terminates: in every run the loop
\* is eventually left and the program reaches its end (or an exception).
ScrapeTerminates == <>(pc \in Terminal)

====
